---- MODULE Spec2Model ----
(***************************************************************************)
(* Model of scripts/gpx_to_svg.py: parse_gpx, normalize_coordinates,       *)
(* create_svg and the part of main that chains them.                       *)
(*                                                                         *)
(* Numbers.  Python floats are modelled by exact arithmetic:               *)
(*   - latitudes and longitudes are whole degrees, multiples of Step;      *)
(*   - elevations are tenths of a metre (354 is 35.4 m);                   *)
(*   - scale, x and y are fractions [n, d] with d > 0, compared by cross   *)
(*     multiplication, so no rounding takes place in the projection;       *)
(*   - angles and the trigonometric values of haversine_km are fixed-point *)
(*     numbers with FP units to 1 (radians, or pure numbers), distances    *)
(*     are metres (thousandths of a km);                                   *)
(*   - round(v, 2), round(v) and the :.2f format round to nearest, ties to *)
(*     even, as Python does on the exact value of the float.               *)
(***************************************************************************)
EXTENDS Integers, Sequences, FiniteSets

VARIABLES
    doc,            \* the GPX document given to parse_gpx: its point elements in document order
    points,         \* parse_gpx's result / normalize_coordinates' argument
    pc,             \* where the run is
    min_lat, min_lon,                   \* locals of normalize_coordinates
    scale_lat, scale_lon, scale,
    prev_lat, prev_lon, cumulative_km,  \* locals of its loop
    i,              \* index of the next sample the loop takes (1-based)
    normalized, profile,                \* the two lists it builds and returns
    raised,         \* the exception that ended the run, or NoError
    path_data,      \* create_svg's path description, a sequence of tokens
    svg_file, profile_file,             \* the two files create_svg writes: <<>> while absent, else <<content>>
    stdout          \* lines printed

vars == <<doc, points, pc, min_lat, min_lon, scale_lat, scale_lon, scale, prev_lat, prev_lon,
          cumulative_km, i, normalized, profile, raised, path_data,
          svg_file, profile_file, stdout>>

----------------------------------------------------------------------------
(* Bounds of the model *)

MaxLen == 2         \* longest sample sequence given to normalize_coordinates
MaxDoc == 3         \* most point elements in a document
MaxLat == 2         \* latitudes are 0, Step, .., MaxLat * Step degrees
MaxLon == 2         \* longitudes are 0, Step, .., MaxLon * Step degrees
Step == 10          \* grid step, degrees

(* Constants of the program *)

width == 800
height == 600
margin == 20
R == 6371

FP == 10000         \* fixed-point unit of the trigonometric model

NoError == "none"
NoEle == 0 - 1      \* an element without an ele child

Lats == {k * Step : k \in 0..MaxLat}
Lons == {k * Step : k \in 0..MaxLon}
Elevations == {5, 354}                  \* 0.5 m and 35.4 m
Samples == [lat : Lats, lon : Lons, ele : Elevations]

RECURSIVE SeqsUpTo(_, _)
SeqsUpTo(S, n) ==
    IF n = 0 THEN {<<>>}
    ELSE LET shorter == SeqsUpTo(S, n - 1)
         IN  shorter \cup {Append(s, e) : s \in {t \in shorter : Len(t) = n - 1}, e \in S}

----------------------------------------------------------------------------
(* Arithmetic *)

Frac(n, d) == [n |-> n, d |-> d]
FracLt(a, b) == a.n * b.d < b.n * a.d
FracLe(a, b) == a.n * b.d <= b.n * a.d
FracEq(a, b) == a.n * b.d = b.n * a.d

\* Python's min(a, b): b when b < a, else a
FracMin(a, b) == IF FracLt(b, a) THEN b ELSE a

\* n / d rounded to the nearest integer, ties to even (d > 0, n >= 0)
RoundHalfEven(n, d) ==
    LET q == n \div d
        r == n % d
    IN  IF 2 * r < d THEN q
        ELSE IF 2 * r > d THEN q + 1
        ELSE IF q % 2 = 0 THEN q ELSE q + 1

\* fixed-point product
Mul(a, b) == (a * b) \div FP

\* math.radians on whole degrees: deg * pi / 180, in FP units
radians(deg) == (deg * 174533) \div 1000

\* math.sin, math.cos: Taylor polynomials, x in FP units of a radian
sin(x) ==
    LET x2 == Mul(x, x)
        x3 == Mul(x2, x)
        x5 == Mul(x3, x2)
        x7 == Mul(x5, x2)
    IN  x - (x3 \div 6) + (x5 \div 120) - (x7 \div 5040)

cos(x) ==
    LET x2 == Mul(x, x)
        x4 == Mul(x2, x2)
        x6 == Mul(x4, x2)
    IN  FP - (x2 \div 2) + (x4 \div 24) - (x6 \div 720)

\* the largest r in lo..hi with r * r <= v
RECURSIVE ISqrt(_, _, _)
ISqrt(v, lo, hi) ==
    IF lo >= hi THEN lo
    ELSE LET mid == (lo + hi + 1) \div 2
         IN  IF mid * mid <= v THEN ISqrt(v, mid, hi) ELSE ISqrt(v, lo, mid - 1)

\* math.sqrt on a fixed-point number (a >= 0)
sqrt(a) == ISqrt(a * FP, 0, 4 * FP)

\* math.asin on [-1, 1]: series s + s^3/6 + 3 s^5/40 + 15 s^7/336
asin(s) ==
    LET s2 == Mul(s, s)
        s3 == Mul(s2, s)
        s5 == Mul(s3, s2)
        s7 == Mul(s5, s2)
    IN  s + (s3 \div 6) + ((3 * s5) \div 40) + ((15 * s7) \div 336)

\* the "a" of the nested haversine_km
haversine_a(a_lat, a_lon, b_lat, b_lon) ==
    LET dlat == radians(b_lat - a_lat)
        dlon == radians(b_lon - a_lon)
        sdlat == sin(dlat \div 2)
        sdlon == sin(dlon \div 2)
    IN  Mul(sdlat, sdlat)
        + Mul(Mul(cos(radians(a_lat)), cos(radians(b_lat))), Mul(sdlon, sdlon))

\* haversine_km raises ValueError when sqrt or asin is given a value outside its domain
haversine_raises(a_lat, a_lon, b_lat, b_lon) ==
    LET a == haversine_a(a_lat, a_lon, b_lat, b_lon)
    IN  a < 0 \/ a > FP

\* the nested haversine_km: R * c, in metres
haversine_km(a_lat, a_lon, b_lat, b_lon) ==
    LET a == haversine_a(a_lat, a_lon, b_lat, b_lon)
        c == 2 * asin(sqrt(a))
    IN  (R * c) \div (FP \div 1000)

----------------------------------------------------------------------------
(* parse_gpx *)

Tags == {"trkpt", "rtept", "wpt"}

\* a point element: its tag, its lat and lon attributes, its ele child (NoEle when it has none)
Elements == [tag : Tags, lat : {0, Step}, lon : {2 * Step}, ele : {NoEle, 354}]

\* root.findall(".//{*}<tag>"): the elements with that tag, in document order
findall(d, tag) == SelectSeq(d, LAMBDA e : e.tag = tag)

\* float(ele_tag.text) if ele_tag is not None else 0.0
ele_of(e) == IF e.ele # NoEle THEN e.ele ELSE 0

\* one "for ... in root.findall(...)" loop: a (lat, lon, ele) tuple appended per element
RECURSIVE append_all(_, _)
append_all(pts, es) ==
    IF es = <<>> THEN pts
    ELSE append_all(Append(pts, [lat |-> Head(es).lat, lon |-> Head(es).lon,
                                 ele |-> ele_of(Head(es))]),
                    Tail(es))

\* route points appended whether or not track points were found
route_points_unguarded(pts, d) == append_all(pts, findall(d, "rtept"))

\* the route-point block, guarded by "if not points"
route_points(pts, d) == IF pts = <<>> THEN append_all(pts, findall(d, "rtept")) ELSE pts

\* the waypoint block, guarded by "if not points"
way_points(pts, d) == IF pts = <<>> THEN append_all(pts, findall(d, "wpt")) ELSE pts

parse_gpx(d) == way_points(route_points(append_all(<<>>, findall(d, "trkpt")), d), d)

----------------------------------------------------------------------------
(* normalize_coordinates *)

RECURSIVE SeqMin(_)
SeqMin(s) == IF Len(s) = 1 THEN s[1]
             ELSE LET m == SeqMin(Tail(s)) IN IF m < s[1] THEN m ELSE s[1]

RECURSIVE SeqMax(_)
SeqMax(s) == IF Len(s) = 1 THEN s[1]
             ELSE LET m == SeqMax(Tail(s)) IN IF m > s[1] THEN m ELSE s[1]

lats(pts) == [k \in 1..Len(pts) |-> pts[k].lat]
lons(pts) == [k \in 1..Len(pts) |-> pts[k].lon]

lat_range(pts) == SeqMax(lats(pts)) - SeqMin(lats(pts))
lon_range(pts) == SeqMax(lons(pts)) - SeqMin(lons(pts))

\* the division made without the "if lat_range > 0" test
scale_lat_of_unguarded(range) == Frac(height - 2 * margin, range)

\* (height - 2 * margin) / lat_range if lat_range > 0 else 1; a denominator of 0 is a
\* division by zero
scale_lat_of(range) == IF range > 0 THEN Frac(height - 2 * margin, range) ELSE Frac(1, 1)
scale_lon_of(range) == IF range > 0 THEN Frac(width - 2 * margin, range) ELSE Frac(1, 1)

\* the less constraining axis scale taken: max in place of min
scale_of_max(slat, slon) == IF FracLt(slat, slon) THEN slon ELSE slat

\* the longitude scale taken for both axes
scale_of_lon(slat, slon) == slon

\* scale = min(scale_lat, scale_lon)
scale_of(slat, slon) == FracMin(slat, slon)

\* x without the margin offset
point_x_unanchored(lon, mn, sc) == Frac((lon - mn) * sc.n, sc.d)

\* x = margin + (lon - min_lon) * scale
point_x(lon, mn, sc) == Frac(margin * sc.d + (lon - mn) * sc.n, sc.d)

\* y without the flip: growing with latitude
point_y_unflipped(lat, mn, sc) == Frac(margin * sc.d + (lat - mn) * sc.n, sc.d)

\* y = height - margin - (lat - min_lat) * scale
point_y(lat, mn, sc) == Frac((height - margin) * sc.d - (lat - mn) * sc.n, sc.d)

\* the distance subtracted from the accumulator ("-=" for "+=")
add_distance_subtracted(cum, p_lat, p_lon, lat, lon) ==
    cum - haversine_km(p_lat, p_lon, lat, lon)

\* cumulative_km += haversine_km(prev_lat, prev_lon, lat, lon)
add_distance(cum, p_lat, p_lon, lat, lon) == cum + haversine_km(p_lat, p_lon, lat, lon)

\* (round(cumulative_km, 2), round(ele)): hundredths of a km, whole metres
profile_entry(cum, ele) == <<RoundHalfEven(cum, 10), RoundHalfEven(ele, 10)>>

\* the samples taken from the last to the first
sample_at_reversed(pts, k) == pts[Len(pts) + 1 - k]

\* the sample the k-th iteration of "for lat, lon, ele in points" takes
sample_at(pts, k) == pts[k]

\* "if not points: return [], []"
NormalizeEmpty ==
    /\ pc = "normalize"
    /\ points = <<>>
    /\ normalized' = <<>>
    /\ profile' = <<>>
    /\ pc' = "returned"
    /\ UNCHANGED <<doc, points, min_lat, min_lon, scale_lat, scale_lon, scale, prev_lat, prev_lon,
                   cumulative_km, i, raised, path_data, svg_file, profile_file, stdout>>

\* everything from "lats = ..." to "prev_lat, prev_lon = points[0][0], points[0][1]"
NormalizeSetup ==
    /\ pc = "normalize"
    /\ points # <<>>
    /\ LET slat == scale_lat_of(lat_range(points))
           slon == scale_lon_of(lon_range(points))
       IN  IF slat.d = 0 \/ slon.d = 0
           THEN /\ raised' = "ZeroDivisionError"
                /\ pc' = "raised"
                /\ UNCHANGED <<min_lat, min_lon, scale_lat, scale_lon, scale, prev_lat,
                               prev_lon, cumulative_km, i, normalized, profile>>
           ELSE /\ min_lat' = SeqMin(lats(points))
                /\ min_lon' = SeqMin(lons(points))
                /\ scale_lat' = slat
                /\ scale_lon' = slon
                /\ scale' = scale_of(slat, slon)
                /\ normalized' = <<>>
                /\ profile' = <<>>
                /\ cumulative_km' = 0
                /\ prev_lat' = points[1].lat
                /\ prev_lon' = points[1].lon
                /\ i' = 1
                /\ pc' = "loop"
                /\ UNCHANGED raised
    /\ UNCHANGED <<doc, points, path_data, svg_file, profile_file, stdout>>

\* one iteration of "for lat, lon, ele in points"
NormalizeLoop ==
    /\ pc = "loop"
    /\ i <= Len(points)
    /\ LET p == sample_at(points, i)
           x == point_x(p.lon, min_lon, scale)
           y == point_y(p.lat, min_lat, scale)
       IN  /\ normalized' = Append(normalized, [x |-> x, y |-> y])
           /\ IF haversine_raises(prev_lat, prev_lon, p.lat, p.lon)
              THEN /\ raised' = "ValueError"
                   /\ pc' = "raised"
                   /\ UNCHANGED <<cumulative_km, prev_lat, prev_lon, profile, i>>
              ELSE /\ cumulative_km' = add_distance(cumulative_km, prev_lat, prev_lon,
                                                    p.lat, p.lon)
                   /\ prev_lat' = p.lat
                   /\ prev_lon' = p.lon
                   /\ profile' = Append(profile, profile_entry(cumulative_km', p.ele))
                   /\ i' = i + 1
                   /\ UNCHANGED <<raised, pc>>
    /\ UNCHANGED <<doc, points, min_lat, min_lon, scale_lat, scale_lon, scale, path_data, svg_file,
                   profile_file, stdout>>

\* "return normalized, profile"; the caller hands both to create_svg
NormalizeReturn ==
    /\ pc = "loop"
    /\ i > Len(points)
    /\ pc' = "returned"
    /\ UNCHANGED <<doc, points, min_lat, min_lon, scale_lat, scale_lon, scale, prev_lat, prev_lon,
                   cumulative_km, i, normalized, profile, raised, path_data,
                   svg_file, profile_file, stdout>>

----------------------------------------------------------------------------
(* create_svg *)

\* f"{x:.2f},{y:.2f}": the pair in hundredths
format_point(pt) == <<RoundHalfEven(pt.x.n * 100, pt.x.d), RoundHalfEven(pt.y.n * 100, pt.y.d)>>

\* " L ".join(parts)
RECURSIVE join(_, _)
join(sep, parts) ==
    IF parts = <<>> THEN <<>>
    ELSE IF Len(parts) = 1 THEN <<parts[1]>>
    ELSE <<parts[1], sep>> \o join(sep, Tail(parts))

\* the path closed back to its start
path_data_of_closed(pts) ==
    <<"M">> \o join("L", [k \in 1..Len(pts) |-> format_point(pts[k])]) \o <<"Z">>

\* "M " + " L ".join([f"{x:.2f},{y:.2f}" for x, y in points])
path_data_of(pts) == <<"M">> \o join("L", [k \in 1..Len(pts) |-> format_point(pts[k])])

\* create_svg without its "if not points" test: the files written for no point
CreateSvgEmptyUnguarded ==
    /\ pc = "returned"
    /\ normalized = <<>>
    /\ path_data' = <<"M">>
    /\ svg_file' = <<[viewBox |-> <<0, 0, width, height>>, d |-> path_data']>>
    /\ stdout' = stdout \o <<"SVG cree avec succes", "Nombre de points">>
    /\ profile_file' = <<profile>>
    /\ pc' = "done"
    /\ UNCHANGED <<doc, points, min_lat, min_lon, scale_lat, scale_lon, scale, prev_lat,
                   prev_lon, cumulative_km, i, normalized, profile, raised>>

\* "if not points: print(...); return"
CreateSvgEmpty ==
    /\ pc = "returned"
    /\ normalized = <<>>
    /\ stdout' = Append(stdout, "Aucun point trouve dans le fichier GPX")
    /\ pc' = "done"
    /\ UNCHANGED <<doc, points, min_lat, min_lon, scale_lat, scale_lon, scale, prev_lat, prev_lon,
                   cumulative_km, i, normalized, profile, raised, path_data,
                   svg_file, profile_file>>

\* the rest of create_svg: the path, the SVG file, the two prints, the profile file
CreateSvg ==
    /\ pc = "returned"
    /\ normalized # <<>>
    /\ path_data' = path_data_of(normalized)
    /\ svg_file' = <<[viewBox |-> <<0, 0, width, height>>, d |-> path_data']>>
    /\ stdout' = stdout \o <<"SVG cree avec succes", "Nombre de points">>
    /\ profile_file' = <<profile>>
    /\ pc' = "done"
    /\ UNCHANGED <<doc, points, min_lat, min_lon, scale_lat, scale_lon, scale, prev_lat, prev_lon,
                   cumulative_km, i, normalized, profile, raised>>

----------------------------------------------------------------------------
(* main *)

\* "points = parse_gpx(gpx_file)"
ParseGpx ==
    /\ pc = "main"
    /\ points' = parse_gpx(doc)
    /\ pc' = "parsed"
    /\ UNCHANGED <<doc, min_lat, min_lon, scale_lat, scale_lon, scale, prev_lat, prev_lon, cumulative_km, i,
                   normalized, profile, raised, path_data, svg_file, profile_file, stdout>>

\* "if not points: print(...); sys.exit(1)"
MainNoPoints ==
    /\ pc = "parsed"
    /\ points = <<>>
    /\ stdout' = Append(stdout, "Aucun point GPS trouve dans le fichier GPX")
    /\ pc' = "exit 1"
    /\ UNCHANGED <<doc, points, min_lat, min_lon, scale_lat, scale_lon, scale, prev_lat, prev_lon,
                   cumulative_km, i, normalized, profile, raised, path_data,
                   svg_file, profile_file>>

\* main goes on to normalize_coordinates(points)
MainNormalize ==
    /\ pc = "parsed"
    /\ points # <<>>
    /\ pc' = "normalize"
    /\ UNCHANGED <<doc, points, min_lat, min_lon, scale_lat, scale_lon, scale, prev_lat, prev_lon,
                   cumulative_km, i, normalized, profile, raised, path_data,
                   svg_file, profile_file, stdout>>

----------------------------------------------------------------------------
(* Specifications *)

Locals ==
    /\ min_lat = 0 /\ min_lon = 0
    /\ scale_lat = Frac(0, 1) /\ scale_lon = Frac(0, 1) /\ scale = Frac(0, 1)
    /\ prev_lat = 0 /\ prev_lon = 0 /\ cumulative_km = 0 /\ i = 0
    /\ normalized = <<>> /\ profile = <<>>
    /\ raised = NoError
    /\ path_data = <<>> /\ svg_file = <<>> /\ profile_file = <<>>
    /\ stdout = <<>>

\* normalize_coordinates called on any sample sequence, its result handed to create_svg
Init ==
    /\ doc = <<>>
    /\ points \in SeqsUpTo(Samples, MaxLen)
    /\ pc = "normalize"
    /\ Locals

Next ==
    \/ NormalizeEmpty
    \/ NormalizeSetup
    \/ NormalizeLoop
    \/ NormalizeReturn
    \/ CreateSvgEmpty
    \/ CreateSvg

Spec == Init /\ [][Next]_vars

\* main run on any document, up to its call of normalize_coordinates
InitMain ==
    /\ doc \in SeqsUpTo(Elements, MaxDoc)
    /\ points = <<>>
    /\ pc = "main"
    /\ Locals

NextMain ==
    \/ ParseGpx
    \/ MainNoPoints
    \/ MainNormalize

SpecMain == InitMain /\ [][NextMain]_vars

----------------------------------------------------------------------------
(* Properties *)

Returned == pc \in {"returned", "done"}

SetMin(S) == CHOOSE m \in S : \A v \in S : m <= v
SetMax(S) == CHOOSE m \in S : \A v \in S : m >= v

LatsOf(pts) == {pts[k].lat : k \in 1..Len(pts)}
LonsOf(pts) == {pts[k].lon : k \in 1..Len(pts)}
LatRange == SetMax(LatsOf(points)) - SetMin(LatsOf(points))
LonRange == SetMax(LonsOf(points)) - SetMin(LonsOf(points))

Whole(v) == Frac(v, 1)

\* a - b and a * k on fractions
FracSub(a, b) == Frac(a.n * b.d - b.n * a.d, a.d * b.d)
FracTimes(a, k) == Frac(a.n * k, a.d)

\* C1. Bounding invariant: every drawing point normalize_coordinates produces
\* has 20 <= x <= 780 and 20 <= y <= 580, zero-range inputs included.
C1_Bounding ==
    \A k \in 1..Len(normalized) :
        /\ FracLe(Whole(20), normalized[k].x) /\ FracLe(normalized[k].x, Whole(780))
        /\ FracLe(Whole(20), normalized[k].y) /\ FracLe(normalized[k].y, Whole(580))

\* a returned track with a zero latitude range that spans the whole grid in longitude
C1_Witness ==
    /\ pc = "returned"
    /\ Len(points) >= 2
    /\ LatRange = 0 /\ LonRange = MaxLon * Step
    /\ \E k \in 1..Len(normalized) : FracLt(Whole(20), normalized[k].x)

\* C2. Index alignment: both returned lists have the length of the input, the
\* i-th drawing point is the projection of sample i and the i-th profile entry
\* carries the rounded elevation of sample i.
C2_IndexAlignment ==
    (Returned /\ raised = NoError) =>
        /\ Len(normalized) = Len(points)
        /\ Len(profile) = Len(points)
        /\ \A k \in 1..Len(points) :
              /\ FracEq(FracSub(normalized[k].x, Whole(margin)),
                        FracTimes(scale, points[k].lon - SetMin(LonsOf(points))))
              /\ FracEq(FracSub(Whole(height - margin), normalized[k].y),
                        FracTimes(scale, points[k].lat - SetMin(LatsOf(points))))
              /\ profile[k][2] = RoundHalfEven(points[k].ele, 10)

\* the lists returned for samples that differ in place and in rounded elevation
C2_Witness ==
    /\ pc = "returned"
    /\ Len(points) = MaxLen
    /\ Len(normalized) = MaxLen
    /\ normalized[1].x # normalized[2].x /\ normalized[1].y # normalized[2].y
    /\ profile[1][2] # profile[2][2]

\* C3. Monotonic distance: the first cumulative distance of the profile is 0.0
\* and no entry is smaller than the one before it.
C3_MonotonicDistance ==
    /\ Len(profile) >= 1 => profile[1][1] = 0
    /\ \A k \in 2..Len(profile) : profile[k][1] >= profile[k - 1][1]

\* the profile returned for a track that moves south-west: its distance grows
C3_Witness ==
    /\ pc = "returned"
    /\ Len(profile) = MaxLen
    /\ points[2].lat < points[1].lat /\ points[2].lon < points[1].lon
    /\ profile[2][1] > profile[1][1]

\* C4. Empty input is not an error: normalize_coordinates returns two empty
\* lists for no sample, create_svg given no point builds no path and writes
\* neither file, and neither raises.
C4_EmptyInput ==
    /\ points = <<>> => (raised = NoError /\ pc # "raised")
    /\ (Returned /\ points = <<>>) => (normalized = <<>> /\ profile = <<>>)
    /\ (pc = "done" /\ normalized = <<>>) =>
            (path_data = <<>> /\ svg_file = <<>> /\ profile_file = <<>>)

\* create_svg has returned from a call with no point
C4_Witness ==
    /\ pc = "done"
    /\ points = <<>>
    /\ normalized = <<>>
    /\ stdout # <<>>

\* C5. Degenerate range never fails: with a zero latitude or longitude range
\* nothing is divided by zero and nothing raises, the scale of a zero-range
\* axis is 1, and samples that all share one latitude and longitude give
\* coinciding drawing points and cumulative distances of 0.0.
C5_DegenerateRange ==
    (points # <<>> /\ (LatRange = 0 \/ LonRange = 0)) =>
        /\ raised = NoError /\ pc # "raised"
        /\ pc \in {"loop", "returned", "done"} =>
              /\ LatRange = 0 => FracEq(scale_lat, Whole(1))
              /\ LonRange = 0 => FracEq(scale_lon, Whole(1))
        /\ (Returned /\ LatRange = 0 /\ LonRange = 0) =>
              /\ \A k \in 1..Len(normalized) : normalized[k] = normalized[1]
              /\ \A k \in 1..Len(profile) : profile[k][1] = 0

\* two or more samples at one place, of different elevations, normalized
C5_Witness ==
    /\ pc = "returned"
    /\ Len(points) >= 2
    /\ LatRange = 0 /\ LonRange = 0
    /\ points[1].ele # points[2].ele
    /\ Len(normalized) = Len(points)

\* C6. Uniform scale: the scale is min(scale_lat, scale_lon), with
\* scale_lat = 560 / lat_range if lat_range > 0 else 1 and scale_lon =
\* 760 / lon_range if lon_range > 0 else 1; the same scale relates the x
\* differences to the longitude differences and the y differences to the
\* latitude differences; the scaled track fits both axes.
C6_UniformScale ==
    (Returned /\ points # <<>> /\ raised = NoError) =>
        LET slat == IF LatRange > 0 THEN Frac(560, LatRange) ELSE Whole(1)
            slon == IF LonRange > 0 THEN Frac(760, LonRange) ELSE Whole(1)
        IN  /\ FracEq(scale, IF FracLe(slat, slon) THEN slat ELSE slon)
            /\ \A k, l \in 1..Len(normalized) :
                  /\ FracEq(FracSub(normalized[k].x, normalized[l].x),
                            FracTimes(scale, points[k].lon - points[l].lon))
                  /\ FracEq(FracSub(normalized[l].y, normalized[k].y),
                            FracTimes(scale, points[k].lat - points[l].lat))
            /\ FracLe(FracTimes(scale, LonRange), Whole(760))
            /\ FracLe(FracTimes(scale, LatRange), Whole(560))

\* a returned track with both ranges positive whose longitude scale is the smaller one
C6_Witness ==
    /\ pc = "returned"
    /\ Len(points) >= 2
    /\ LatRange > 0 /\ LonRange > 0
    /\ FracLt(scale_lon, scale_lat)
    /\ scale = scale_lon

\* C7. Orientation: of any two samples of one input, the one of strictly
\* greater latitude has the strictly smaller y and the one of strictly greater
\* longitude has the strictly greater x.
C7_Orientation ==
    (Returned /\ raised = NoError) =>
        \A k, l \in 1..Len(normalized) :
            /\ points[k].lat > points[l].lat => FracLt(normalized[k].y, normalized[l].y)
            /\ points[k].lon > points[l].lon => FracLt(normalized[l].x, normalized[k].x)

\* two samples of equal longitude, the second further north, normalized
C7_Witness ==
    /\ pc = "returned"
    /\ Len(points) = 2
    /\ Len(normalized) = 2
    /\ points[2].lon = points[1].lon
    /\ points[2].lat > points[1].lat

\* C8. Path serialization: for N >= 1 points the path holds exactly N
\* coordinate pairs in input order, the first after a move-to, each later one
\* after a line-to, nothing after the last pair, repeated points kept.
C8_PathSerialization ==
    (pc = "done" /\ normalized # <<>>) =>
        LET n == Len(normalized)
        IN  /\ Len(path_data) = 2 * n
            /\ path_data[1] = "M"
            /\ \A k \in 1..n : path_data[2 * k] = format_point(normalized[k])
            /\ \A k \in 1..(n - 1) : path_data[2 * k + 1] = "L"

\* a path written for a point sequence that repeats a point
C8_Witness ==
    /\ pc = "done"
    /\ Len(normalized) = MaxLen
    /\ normalized[1] = normalized[2]
    /\ svg_file # <<>>

\* C9. Schema fallback order: parse_gpx returns the points of the first
\* non-empty category among track points, route points, waypoints, in
\* document order, never mixing categories; a point without an elevation
\* element has elevation 0.0.
C9_FallbackOrder ==
    pc \in {"parsed", "exit 1", "normalize"} =>
        LET trk == findall(doc, "trkpt")
            rte == findall(doc, "rtept")
            wpt == findall(doc, "wpt")
            src == IF trk # <<>> THEN trk ELSE IF rte # <<>> THEN rte ELSE wpt
        IN  /\ Len(points) = Len(src)
            /\ \A k \in 1..Len(src) :
                  /\ points[k].lat = src[k].lat
                  /\ points[k].lon = src[k].lon
                  /\ points[k].ele = (IF src[k].ele = NoEle THEN 0 ELSE src[k].ele)

\* a parsed document with track points, a route point before them and a track
\* point without elevation
C9_Witness ==
    /\ pc = "parsed"
    /\ Len(doc) = 3
    /\ doc[1].tag = "rtept" /\ doc[2].tag = "trkpt" /\ doc[3].tag = "trkpt"
    /\ doc[2].ele = NoEle /\ doc[3].ele # NoEle
    /\ Len(points) = 2

\* C10. Bottom-left anchoring: every sample of minimum longitude is drawn at
\* x = 20 and every sample of minimum latitude at y = 580, so the space the
\* uniform scale leaves unused is to the right and at the top.
C10_BottomLeftAnchoring ==
    (Returned /\ raised = NoError) =>
        \A k \in 1..Len(normalized) :
            /\ points[k].lon = SetMin(LonsOf(points)) => FracEq(normalized[k].x, Whole(20))
            /\ points[k].lat = SetMin(LatsOf(points)) => FracEq(normalized[k].y, Whole(580))
            /\ FracLe(Whole(20), normalized[k].x)
            /\ FracLe(normalized[k].y, Whole(580))

\* a returned track that leaves room at the top: the longitude scale is the
\* uniform one and the northernmost point is drawn below y = 20
C10_Witness ==
    /\ pc = "returned"
    /\ Len(points) >= 2
    /\ LatRange > 0 /\ LonRange > 0
    /\ FracLt(scale, scale_lat)
    /\ \A k \in 1..Len(normalized) : FracLt(Whole(20), normalized[k].y)
    /\ \E k \in 1..Len(normalized) : FracEq(normalized[k].y, Whole(580))

====
